---- MODULE Spec2Model ----
(***************************************************************************)
(* riscv-stack: per-hart stack location, usage metrics, stack painting and *)
(* the two watermark scanners of src/src/lib.rs.                           *)
(*                                                                         *)
(* Addresses are byte addresses.  Memory is an array of 32-bit words at    *)
(* the 4-byte-aligned addresses 0, 4, ..., MemTop.  A word is kept as its  *)
(* 32-bit pattern read as a signed integer.  One hart runs; the memory     *)
(* holds the stack regions of all harts.                                   *)
(***************************************************************************)
EXTENDS Integers, FiniteSets, Sequences, TLC

(* ------------------------------ bounds --------------------------------- *)
StackWords  == 4    \* nominal words per hart stack (_hart_stack_size \div 4)
MaxSkew     == 1    \* largest misalignment (bytes) of the linker symbols
MaxHart     == 1    \* largest hart id
MaxOverflow == 1    \* words a stack may run past its `end`
MaxFrame    == 2    \* words an interrupt handler pushes
MaxIrq      == 1    \* interrupts taken during one paint or one scan

(* --------------------------- program constants ------------------------- *)
STACK_PAINT_VALUE == -858993460   \* 0xCCCC_CCCC as a 32-bit pattern
WordBytes == 4                    \* size_of::<u32>(), the step of *mut u32

(* Non-sentinel data: what ordinary pushes and interrupt handlers store.   *)
DataWord == 0
IsrWord  == 1

MaxSize  == WordBytes * StackWords + MaxSkew
LowPad   == WordBytes * (MaxOverflow + 1)
AllStacks == (MaxHart + 1) * MaxSize
MinTop   == LowPad + AllStacks + ((WordBytes - (AllStacks % WordBytes)) % WordBytes)
MemTop   == MinTop + WordBytes
WordAddrs == {a \in 0..MemTop : a % WordBytes = 0}
XLens    == {32, 64}

VARIABLES
    top,      \* address of the linker symbol _stack_start
    stksz,    \* value of the linker symbol _hart_stack_size
    hartid,   \* mhartid of the running hart
    mem,      \* word memory
    sp,       \* stack pointer register of the running hart
    pc,       \* "idle", "paint" (inside repaint_stack), "scan" (inside stack_painted)
    ptr,      \* the {ptr} register of the running asm loop
    mie,      \* interrupts enabled while the running call executes
    call,     \* the last call: its name, result and what it observed
    hist      \* since the last uninterrupted repaint_stack(): the stack pointer
              \* it ran at (sp0) and the lowest stack pointer since (low), while
              \* the stack has only been pushed and popped

vars == <<top, stksz, hartid, mem, sp, pc, ptr, mie, call, hist>>

Min(a, b) == IF a <= b THEN a ELSE b
Max(a, b) == IF a >= b THEN a ELSE b

(* -------------------------- HartStackLocator --------------------------- *)
\* p & !0b11
AlignDown(p) == p - (p % 4)

HartStack_EndFromAligned(h) ==
    LET start == AlignDown(top - h * stksz)
    IN  [start |-> start, end |-> AlignDown(start - stksz)]

\* stack() for the hart whose mhartid is h
HartStack(h) ==
    LET start == top - h * stksz
        end   == start - stksz
    IN  [start |-> AlignDown(start), end |-> AlignDown(end)]

stack == HartStack(hartid)

current_stack_ptr == sp

(* ----------------------------- StackMetrics ---------------------------- *)
stack_size == stack.start - stack.end

current_stack_in_use == stack.start - current_stack_ptr

wrapping_sub(a, b) == (a - b) % 65536

saturating_sub(a, b) == IF a >= b THEN a - b ELSE 0

current_stack_free == saturating_sub(stack_size, current_stack_in_use)

(* --------------------------- linear scanner ---------------------------- *)
\* The asm loop of stack_painted() run without interruption on memory m
\* with stack pointer s, from cursor p: the cursor it stops at.
RECURSIVE ScanFrom(_, _, _)
ScanFrom(m, p, s) ==
    IF p >= s \/ m[p] # STACK_PAINT_VALUE THEN p ELSE ScanFrom(m, p + WordBytes, s)

stack_painted_on(m, s) == ScanFrom(m, stack.end + WordBytes, s) - stack.end

(* --------------------------- binary scanner ---------------------------- *)
\* slice::partition_point(|&word| word == STACK_PAINT_VALUE) over the slice
\* of len words that begins at address base0: binary_search_by with the
\* predicate mapped to Less/Greater.  Returns the index and the addresses read.
RECURSIVE BinarySearch(_, _, _, _, _)
BinarySearch(m, base0, base, size, reads) ==
    IF size > 1
    THEN LET half == size \div 2
             mid  == base + half
             a    == base0 + WordBytes * mid
         IN  BinarySearch(m, base0,
                          IF m[a] = STACK_PAINT_VALUE THEN mid ELSE base,
                          size - half, reads \cup {a})
    ELSE LET a == base0 + WordBytes * base
         IN  [idx   |-> base + (IF m[a] = STACK_PAINT_VALUE THEN 1 ELSE 0),
              reads |-> reads \cup {a}]

partition_point(m, base0, len) ==
    IF len = 0 THEN [idx |-> 0, reads |-> {}]
    ELSE BinarySearch(m, base0, 0, len, {})

\* xlen is the machine word width of the build: size_of::<usize>() = xlen / 8
stack_painted_binary(xlen) ==
    LET r == partition_point(mem, stack.end + WordBytes, current_stack_free \div 4)
    IN  [val |-> r.idx * (xlen \div 8), reads |-> r.reads]

(* ------------------------------- state --------------------------------- *)
NoCall == [op |-> "none"]
NoHist == [sp0 |-> -1, low |-> -1]
NoIsr  == [a \in WordAddrs |-> -1]

Init ==
    /\ top = MinTop
    /\ stksz = WordBytes * StackWords
    /\ hartid \in 0..MaxHart
    /\ mem \in {[a \in WordAddrs |-> v] : v \in {DataWord, STACK_PAINT_VALUE}}
    /\ sp = AlignDown(top - hartid * stksz)
    /\ pc = "idle"
    /\ ptr = 0
    /\ mie = TRUE
    /\ call = NoCall
    /\ hist = NoHist

env == <<top, stksz, hartid>>

(* --------------------------- ordinary execution ------------------------ *)
\* The running program pushes one word of data past the end of its stack.
Overflow ==
    /\ pc = "idle"
    /\ sp - WordBytes >= 0
    /\ sp - WordBytes < stack.end
    /\ sp - WordBytes >= stack.end - WordBytes * MaxOverflow
    /\ sp' = sp - WordBytes
    /\ mem' = [mem EXCEPT ![sp - WordBytes] = DataWord]
    /\ hist' = NoHist
    /\ call' = NoCall
    /\ UNCHANGED <<env, pc, ptr, mie>>

\* The running program pushes one word of data.
Push ==
    /\ pc = "idle"
    /\ sp - WordBytes >= stack.end
    /\ sp' = sp - WordBytes
    /\ mem' = [mem EXCEPT ![sp - WordBytes] = DataWord]
    /\ hist' = IF hist.sp0 = -1 THEN hist
               ELSE [hist EXCEPT !.low = Min(@, sp - WordBytes)]
    /\ call' = NoCall
    /\ UNCHANGED <<env, pc, ptr, mie>>

\* The running program pops one word.
Pop ==
    /\ pc = "idle"
    /\ sp < stack.start
    /\ sp' = sp + WordBytes
    /\ call' = NoCall
    /\ UNCHANGED <<env, mem, pc, ptr, mie, hist>>

\* An out-of-order write into the freshly painted stack, k bytes above `end`.
Poke(k) ==
    /\ pc = "idle"
    /\ call.op = "repaint"
    /\ call.irqs = 0
    /\ k % WordBytes = 0
    /\ k < stack_size
    /\ stack.end + k < sp
    /\ mem' = [mem EXCEPT ![stack.end + k] = DataWord]
    /\ hist' = NoHist
    /\ call' = [op |-> "poke", at |-> stack.end + k]
    /\ UNCHANGED <<env, sp, pc, ptr, mie>>

(* ------------------------------ metrics -------------------------------- *)
Stack ==
    /\ pc = "idle"
    /\ call' = [op |-> "stack", start |-> stack.start, end |-> stack.end]
    /\ UNCHANGED <<env, mem, sp, pc, ptr, mie, hist>>

CurrentStackFree ==
    /\ pc = "idle"
    /\ call' = [op |-> "free", val |-> current_stack_free,
                size |-> stack_size, in_use |-> current_stack_in_use]
    /\ UNCHANGED <<env, mem, sp, pc, ptr, mie, hist>>

(* ------------------------------ painter -------------------------------- *)
RepaintBegin_FromEnd(ie) ==
    /\ pc = "idle"
    /\ pc' = "paint"
    /\ ptr' = stack.end
    /\ mie' = ie
    /\ call' = [op |-> "repaint", ie |-> ie, mem0 |-> mem, written |-> {},
                irqs |-> 0, isrAt |-> NoIsr]
    /\ hist' = [sp0 |-> sp, low |-> sp]
    /\ UNCHANGED <<env, mem, sp>>

\* Entry of repaint_stack(): ptr = stack().end.add(1).  ie is FALSE when the
\* caller wrapped the call in a critical section.
RepaintBegin(ie) ==
    /\ pc = "idle"
    /\ pc' = "paint"
    /\ ptr' = stack.end + WordBytes
    /\ mie' = ie
    /\ call' = [op |-> "repaint", ie |-> ie, mem0 |-> mem, written |-> {},
                irqs |-> 0, isrAt |-> NoIsr]
    /\ hist' = [sp0 |-> sp, low |-> sp]
    /\ UNCHANGED <<env, mem, sp>>

PaintStep_StopEarly ==
    /\ pc = "paint"
    /\ IF ptr + WordBytes >= sp
       THEN /\ pc' = "idle"
            /\ ptr' = 0
            /\ mie' = TRUE
            /\ UNCHANGED <<mem, call>>
       ELSE /\ mem' = [mem EXCEPT ![ptr] = STACK_PAINT_VALUE]
            /\ ptr' = ptr + WordBytes
            /\ call' = [call EXCEPT !.written = @ \cup {ptr}]
            /\ UNCHANGED <<pc, mie>>
    /\ UNCHANGED <<env, sp, hist>>

\* One turn of the loop: bgeu ptr, sp, 1f; sw paint, 0(ptr); addi ptr, ptr, 4
PaintStep ==
    /\ pc = "paint"
    /\ IF ptr >= sp
       THEN /\ pc' = "idle"
            /\ ptr' = 0
            /\ mie' = TRUE
            /\ UNCHANGED <<mem, call>>
       ELSE /\ mem' = [mem EXCEPT ![ptr] = STACK_PAINT_VALUE]
            /\ ptr' = ptr + WordBytes
            /\ call' = [call EXCEPT !.written = @ \cup {ptr}]
            /\ UNCHANGED <<pc, mie>>
    /\ UNCHANGED <<env, sp, hist>>

(* ----------------------------- interrupts ------------------------------ *)
\* An interrupt handler runs between two instructions of the running loop:
\* it pushes d words of its own below sp and returns.
Interrupt(d) ==
    /\ pc \in {"paint", "scan"}
    /\ mie
    /\ call.irqs < MaxIrq
    /\ sp - WordBytes * d >= stack.end
    /\ LET frame == {a \in WordAddrs : sp - WordBytes * d <= a /\ a < sp}
       IN  /\ mem' = [a \in WordAddrs |-> IF a \in frame THEN IsrWord ELSE mem[a]]
           /\ IF pc = "paint"
              THEN /\ call' = [call EXCEPT !.irqs = @ + 1,
                                 !.isrAt = [a \in WordAddrs |->
                                              IF a \in frame THEN ptr ELSE @[a]]]
                   /\ hist' = NoHist
              ELSE /\ call' = [call EXCEPT !.irqs = @ + 1]
                   /\ hist' = IF hist.sp0 = -1 THEN hist
                              ELSE [hist EXCEPT !.low = Min(@, sp - WordBytes * d)]
    /\ UNCHANGED <<env, sp, pc, ptr, mie>>

(* --------------------------- linear scanner ---------------------------- *)
ScanBegin_FromEnd ==
    /\ pc = "idle"
    /\ pc' = "scan"
    /\ ptr' = stack.end
    /\ mie' = TRUE
    /\ call' = [op |-> "painted", irqs |-> 0, mem0 |-> mem,
                poked |-> IF call.op = "poke" THEN {call.at} ELSE {}]
    /\ UNCHANGED <<env, mem, sp, hist>>

\* Entry of stack_painted(): ptr = stack().end.add(1)
ScanBegin ==
    /\ pc = "idle"
    /\ pc' = "scan"
    /\ ptr' = stack.end + WordBytes
    /\ mie' = TRUE
    /\ call' = [op |-> "painted", irqs |-> 0, mem0 |-> mem,
                poked |-> IF call.op = "poke" THEN {call.at} ELSE {}]
    /\ UNCHANGED <<env, mem, sp, hist>>

ScanStep_OffByWord ==
    /\ pc = "scan"
    /\ IF ptr >= sp \/ mem[ptr] # STACK_PAINT_VALUE
       THEN /\ pc' = "idle"
            /\ ptr' = 0
            /\ mie' = TRUE
            /\ call' = [op |-> "painted", irqs |-> call.irqs, mem0 |-> call.mem0,
                        poked |-> call.poked,
                        val |-> ptr - WordBytes - stack.end]
       ELSE /\ ptr' = ptr + WordBytes
            /\ UNCHANGED <<pc, mie, call>>
    /\ UNCHANGED <<env, mem, sp, hist>>

\* One turn of the loop: bgeu ptr, sp, 1f; lw value, 0(ptr);
\* bne value, paint, 1f; addi ptr, ptr, 4.  On exit the result is
\* res.byte_offset_from_unsigned(stack().end).
ScanStep ==
    /\ pc = "scan"
    /\ IF ptr >= sp \/ mem[ptr] # STACK_PAINT_VALUE
       THEN /\ pc' = "idle"
            /\ ptr' = 0
            /\ mie' = TRUE
            /\ call' = [op |-> "painted", irqs |-> call.irqs, mem0 |-> call.mem0,
                        poked |-> call.poked,
                        val |-> ptr - stack.end]
       ELSE /\ ptr' = ptr + WordBytes
            /\ UNCHANGED <<pc, mie, call>>
    /\ UNCHANGED <<env, mem, sp, hist>>

(* --------------------------- binary scanner ---------------------------- *)
StackPaintedBinary(xlen) ==
    /\ pc = "idle"
    /\ call' = [op |-> "binary", xlen |-> xlen,
                val |-> stack_painted_binary(xlen).val,
                reads |-> stack_painted_binary(xlen).reads]
    /\ UNCHANGED <<env, mem, sp, pc, ptr, mie, hist>>

Next ==
    \/ Push
    \/ Pop
    \/ \E k \in 0..MaxSize : Poke(k)
    \/ \E ie \in BOOLEAN : RepaintBegin(ie)
    \/ PaintStep
    \/ \E d \in 1..MaxFrame : Interrupt(d)
    \/ ScanBegin
    \/ ScanStep
    \/ \E xlen \in XLens : StackPaintedBinary(xlen)

Spec == Init /\ [][Next]_vars

(* The locator and the metrics over every linker layout and stack pointer. *)
InitMetrics ==
    /\ top \in MinTop..(MinTop + WordBytes - 1)
    /\ stksz \in (WordBytes * StackWords)..MaxSize
    /\ hartid \in 0..MaxHart
    /\ mem = [a \in WordAddrs |-> DataWord]
    /\ sp = AlignDown(top - hartid * stksz)
    /\ pc = "idle"
    /\ ptr = 0
    /\ mie = TRUE
    /\ call = NoCall
    /\ hist = NoHist

NextMetrics ==
    \/ Push
    \/ Overflow
    \/ Pop
    \/ Stack
    \/ CurrentStackFree

SpecMetrics == InitMetrics /\ [][NextMetrics]_vars

(* ======================= properties of the code ======================== *)
Returned(op) == pc = "idle" /\ call.op = op

\* the stack pointer is inside the hart's region
InRegion == stack.end <= sp /\ sp <= stack.start

\* the words strictly between `end` and the address s
PaintRange(s) == {a \in WordAddrs : stack.end + WordBytes <= a /\ a < s}

\* the stack words of the other harts, under either reading of the bounds
OtherHartWords ==
    UNION {{a \in WordAddrs : HartStack(h).end <= a /\ a <= HartStack(h).start}
           : h \in (0..MaxHart) \ {hartid}}

\* A scan that follows a completed, uninterrupted paint with nothing in between
FreshPaint ==
    /\ hist.sp0 = sp
    /\ hist.low = sp

DirtyBelow(m) == {a \in PaintRange(sp) : m[a] # STACK_PAINT_VALUE}

SetMin(S) == CHOOSE x \in S : \A y \in S : x <= y

\* distance from `end` to the first non-sentinel word below sp in memory m,
\* or to where the scanned words end when there is none
Watermark(m) ==
    IF DirtyBelow(m) = {}
    THEN Max(sp, stack.end + WordBytes) - stack.end
    ELSE SetMin(DirtyBelow(m)) - stack.end

\* C1: stack() returns start = T - h*S and end = T - h*S - S, each rounded
\* down to a multiple of 4, so start >= end and both are 4-byte aligned.
C1_StackBounds ==
    call.op = "stack" =>
        LET x == top - hartid * stksz
            y == x - stksz
        IN  /\ call.start % 4 = 0 /\ call.start <= x /\ x - call.start < 4
            /\ call.end % 4 = 0 /\ call.end <= y /\ y - call.end < 4
            /\ call.start >= call.end

C1_Witness ==
    /\ call.op = "stack"
    /\ hartid > 0
    /\ (top - hartid * stksz) % 4 # 0
    /\ stksz % 4 # 0
    /\ call.start > call.end

\* C5: current_stack_free() is stack_size - in_use while sp >= end (so
\* in_use + free = stack_size) and exactly 0 once sp < end.
C5_FreeSaturates ==
    call.op = "free" =>
        /\ call.size = stack.start - stack.end
        /\ call.in_use = stack.start - sp
        /\ sp >= stack.end => /\ call.val = call.size - call.in_use
                              /\ call.in_use + call.val = call.size
        /\ sp < stack.end => call.val = 0

C5_Witness == call.op = "free" /\ sp < stack.end /\ call.in_use > call.size

\* C2: an uninterrupted repaint_stack() with end <= sp <= start writes exactly
\* the words from end+4 up to but not including sp, leaves the sentinel in each,
\* and changes no other word: none at or above sp, none of another hart.
C2_PaintFrame ==
    (Returned("repaint") /\ call.irqs = 0 /\ InRegion) =>
        /\ call.written = PaintRange(sp)
        /\ \A a \in WordAddrs :
               IF a \in PaintRange(sp) THEN mem[a] = STACK_PAINT_VALUE
               ELSE mem[a] = call.mem0[a]
        /\ \A a \in call.written : a < sp /\ a \notin OtherHartWords

C2_Witness ==
    /\ Returned("repaint") /\ call.irqs = 0 /\ InRegion
    /\ sp < stack.start
    /\ \E a \in call.written : call.mem0[a] # STACK_PAINT_VALUE
    /\ \E a \in WordAddrs : a >= sp /\ mem[a] # STACK_PAINT_VALUE

\* C3: after a paint and one non-sentinel write at byte offset k from `end`
\* (k word-aligned, k < S, below sp), an uninterrupted stack_painted() returns k.
C3_PokeFound ==
    (Returned("painted") /\ call.irqs = 0 /\ call.poked # {}) =>
        \A a \in call.poked : call.val = a - stack.end

\* the memory honours the monotonic-write assumption with boundary k
Monotone(k) ==
    /\ k % WordBytes = 0
    /\ stack.end + k <= sp
    /\ \A a \in WordAddrs :
           (stack.end <= a /\ a < stack.start) =>
               (mem[a] = STACK_PAINT_VALUE <=> a - stack.end < k)

\* C4: on a region honouring the monotonic-write assumption with boundary k,
\* stack_painted_binary() returns k, the same as stack_painted(), on 32-bit
\* and on 64-bit builds.
C4_BinaryMatchesLinear ==
    Returned("binary") =>
        \A k \in 0..MaxSize :
            (InRegion /\ Monotone(k)) =>
                /\ call.val = k
                /\ call.val = stack_painted_on(mem, sp)

\* C10: stack_painted_binary() reads only words from end+4 up to but not
\* including sp, the words repaint_stack() would paint.
C10_BinaryReadsPainted ==
    Returned("binary") => call.reads \subseteq PaintRange(sp)

C7_DeepestPoint ==
    (Returned("painted") /\ call.irqs = 0 /\ hist.sp0 = sp
        /\ InRegion /\ hist.low >= stack.end) =>
        call.val = hist.low - stack.end

\* C8: an interrupt inside repaint_stack() that writes below sp has every word
\* it wrote at or above the painter's cursor repainted and every word below the
\* cursor left with the handler's value; inside a critical section the words
\* below sp all hold the sentinel on return.
C8_PaintNotAtomic ==
    Returned("repaint") =>
        /\ \A a \in WordAddrs :
               (call.isrAt[a] # -1) =>
                   IF a >= call.isrAt[a] THEN mem[a] = STACK_PAINT_VALUE
                   ELSE mem[a] = IsrWord
        /\ ~call.ie => /\ call.irqs = 0
                       /\ \A a \in PaintRange(sp) : mem[a] = STACK_PAINT_VALUE

C8_Witness ==
    /\ Returned("repaint")
    /\ \E a \in PaintRange(sp) : call.isrAt[a] # -1 /\ a < call.isrAt[a]
                                   /\ mem[a] = IsrWord
    /\ \E b \in PaintRange(sp) : call.isrAt[b] # -1 /\ b >= call.isrAt[b]

====
